---------------------------- MODULE Spec2Model ----------------------------
(***************************************************************************)
(* Stock agent: a tool registry (MCPServer), two market-data tools, the    *)
(* free-text request interpreter and response formatter (StockAgent) and   *)
(* the interactive loop (main).                                            *)
(*                                                                         *)
(* Python str values are sequences of one-character strings, so that       *)
(* upper(), lower(), strip(), split(), the `in` substring test, the symbol *)
(* regular expression and f-string concatenation are computed.             *)
(***************************************************************************)
EXTENDS Integers, Sequences, FiniteSets, TLC

\* ------------------------------------------------------------------ bounds
\* Largest number of rows the data provider returns in one fetch.
MaxRows == 12

\* ------------------------------------------------------- Python str helpers
UpperLetters == <<"A","B","C","D","E","F","G","H","I","J","K","L","M","N","O","P","Q","R","S","T","U","V","W","X","Y","Z">>
LowerLetters == <<"a","b","c","d","e","f","g","h","i","j","k","l","m","n","o","p","q","r","s","t","u","v","w","x","y","z">>
DigitChars == <<"0","1","2","3","4","5","6","7","8","9">>

Range(s) == {s[i] : i \in 1..Len(s)}

Whitespace == {" ", "\t", "\n"}

UpperSet == Range(UpperLetters)

LowerSet == Range(LowerLetters)

DigitSet == Range(DigitChars)

AlnumSet == UpperSet \cup LowerSet \cup DigitSet

WordSet == AlnumSet \cup {"_"}

IsUpperAZ(c) == c \in UpperSet

\* str.isalnum for one character
IsAlnum(c) == c \in AlnumSet

\* the regular expression class \w
IsWord(c) == c \in WordSet

UpperOf == [c \in LowerSet |-> UpperLetters[CHOOSE i \in 1..26 : LowerLetters[i] = c]]

LowerOf == [c \in UpperSet |-> LowerLetters[CHOOSE i \in 1..26 : UpperLetters[i] = c]]

UpperChar(c) == IF c \in LowerSet THEN UpperOf[c] ELSE c

LowerChar(c) == IF c \in UpperSet THEN LowerOf[c] ELSE c

str_upper(s) == [i \in 1..Len(s) |-> UpperChar(s[i])]

str_lower(s) == [i \in 1..Len(s) |-> LowerChar(s[i])]

SetMin(S) == CHOOSE x \in S : \A y \in S : x <= y

SetMax(S) == CHOOSE x \in S : \A y \in S : x >= y

str_strip(s) ==
    LET keep == {i \in 1..Len(s) : s[i] \notin Whitespace}
    IN  IF keep = {} THEN <<>> ELSE SubSeq(s, SetMin(keep), SetMax(keep))

\* Python `sub in s`
Contains(s, sub) ==
    \E i \in 0..(Len(s) - Len(sub)) : \A j \in 1..Len(sub) : s[i + j] = sub[j]

RECURSIVE SplitFrom(_, _, _)
SplitFrom(s, i, word) ==
    IF i > Len(s) THEN (IF word = <<>> THEN <<>> ELSE <<word>>)
    ELSE IF s[i] \in Whitespace
         THEN (IF word = <<>> THEN <<>> ELSE <<word>>) \o SplitFrom(s, i + 1, <<>>)
         ELSE SplitFrom(s, i + 1, Append(word, s[i]))

\* str.split() with no argument
str_split(s) == SplitFrom(s, 1, <<>>)

RECURSIVE IntToStr(_)
IntToStr(n) == IF n < 10 THEN <<DigitChars[n + 1]>> ELSE IntToStr(n \div 10) \o <<DigitChars[(n % 10) + 1]>>

\* format spec ".2f" of a price held in hundredths
Fmt2f(cents) == IntToStr(cents \div 100) \o <<".">> \o <<DigitChars[((cents \div 10) % 10) + 1], DigitChars[(cents % 10) + 1]>>

RECURSIVE FmtComma(_)
\* format spec "," of an int
FmtComma(n) ==
    IF n < 1000 THEN IntToStr(n)
    ELSE FmtComma(n \div 1000) \o <<",">> \o
         <<DigitChars[((n \div 100) % 10) + 1], DigitChars[((n \div 10) % 10) + 1], DigitChars[(n % 10) + 1]>>


\* ------------------------------------------------------ Python values
\* an argument value: a str, or something that is not a str (its repr in v)
Str(s) == [t |-> "str", v |-> s]

NotStr(repr) == [t |-> "int", v |-> repr]

NoneVal == [t |-> "none", v |-> <<"N","o","n","e">>]

\* str(value) / f"{value}"
PyStr(val) == val.v

\* dict.get(key, default)
dict_get(args, key, default) == IF key \in DOMAIN args THEN args[key] ELSE default

\* how a call ends: it returns a value or raises an exception (class Exception)
Return(value) == [kind |-> "return", value |-> value]

Raise(exc, msg) == [kind |-> "raise", exc |-> exc, msg |-> msg]

NoOutcome == [kind |-> "none"]

\* ------------------------------------------------------ data provider
\* yf.Ticker(symbol).history(...): raises, or returns a table of rows
\* (empty or not).  The table is the provider's, whatever was asked.
ProviderMessages == {<<"t","i","m","e","o","u","t">>, <<"H","T","T","P"," ","4","0","4">>}

DateStr(i) == <<"2","0","2","4","-","0","1","-">> \o <<DigitChars[(i \div 10) + 1], DigitChars[(i % 10) + 1]>>

Row(i) == [date |-> DateStr(i), open |-> 10000 + 7 * i, high |-> 10150 + 7 * i,
           low |-> 9905 + 7 * i, close |-> 10020 + 7 * i, volume |-> 998500 + 500 * i]

Table(n) == [i \in 1..n |-> Row(i)]

ProviderOutcomes ==
    {[kind |-> "raise", msg |-> m] : m \in ProviderMessages}
    \cup {[kind |-> "rows", rows |-> Table(n)] : n \in 0..MaxRows}

\* ------------------------------------------------------ stock_mcp_server.py
AAPL == <<"A","A","P","L">>

QuoteToolName == <<"g","e","t","_","s","t","o","c","k","_","q","u","o","t","e">>

HistoricalToolName == <<"g","e","t","_","s","t","o","c","k","_","h","i","s","t","o","r","i","c","a","l","_","d","a","t","a">>

\* `.upper()` on the value of args.get("symbol", "AAPL"): AttributeError
\* when the value is not a str
upper_of(val) ==
    IF val.t = "str" THEN Return(str_upper(val.v))
    ELSE Raise("AttributeError", <<"'">> \o <<"i","n","t">> \o <<"'"," ","o","b","j","e","c","t"," ","h","a","s"," ","n","o"," ","a","t","t","r","i","b","u","t","e"," ","'","u","p","p","e","r","'">>)

no_data_payload(symbol) ==
    [symbol |-> symbol, error |-> <<"N","o"," ","d","a","t","a"," ","f","o","u","n","d"," ","f","o","r"," ","s","y","m","b","o","l"," ","'">> \o symbol \o <<"'",".">>]

\* the message of the exception is left out of the payload
failure_payload_no_message(symbol, prefix, msg) == [symbol |-> symbol, error |-> prefix]

\* except Exception as e: return {"symbol": symbol, "error": f"<prefix>{str(e)}"}
failure_payload(symbol, prefix, msg) == [symbol |-> symbol, error |-> prefix \o msg]

\* the provider calls a tool run makes: <<>> or one fetch
quote_fetches(args) ==
    LET up == upper_of(dict_get(args, "symbol", Str(AAPL)))
    IN  IF up.kind = "raise" THEN <<>>
        ELSE <<[symbol |-> up.value, period |-> Str(<<"1","d">>), interval |-> NoneVal]>>

get_stock_quote_tool(args, hist) ==
    LET up == upper_of(dict_get(args, "symbol", Str(AAPL)))
    IN  IF up.kind = "raise" THEN up
        ELSE LET symbol == up.value
             IN  IF hist.kind = "raise"
                 THEN Return(failure_payload(symbol, <<"F","a","i","l","e","d"," ","t","o"," ","f","e","t","c","h"," ","d","a","t","a",":"," ">>, hist.msg))
                 ELSE IF hist.rows = <<>>
                 THEN Return(no_data_payload(symbol))
                 ELSE LET latest == hist.rows[Len(hist.rows)]
                      IN  Return([symbol |-> symbol, date |-> latest.date,
                                  open |-> latest.open, high |-> latest.high,
                                  low |-> latest.low, close |-> latest.close,
                                  volume |-> latest.volume])

historical_fetches(args) ==
    LET up == upper_of(dict_get(args, "symbol", Str(AAPL)))
    IN  IF up.kind = "raise" THEN <<>>
        ELSE <<[symbol |-> up.value,
                period |-> dict_get(args, "period", Str(<<"1","m","o">>)),
                interval |-> dict_get(args, "interval", Str(<<"1","d">>))]>>

get_stock_historical_data_tool(args, hist) ==
    LET up == upper_of(dict_get(args, "symbol", Str(AAPL)))
        period == dict_get(args, "period", Str(<<"1","m","o">>))
        interval == dict_get(args, "interval", Str(<<"1","d">>))
    IN  IF up.kind = "raise" THEN up
        ELSE LET symbol == up.value
             IN  IF hist.kind = "raise"
                 THEN Return(failure_payload(symbol, <<"F","a","i","l","e","d"," ","t","o"," ","f","e","t","c","h"," ","h","i","s","t","o","r","i","c","a","l"," ","d","a","t","a",":"," ">>,
                                             hist.msg))
                 ELSE IF hist.rows = <<>>
                 THEN Return(no_data_payload(symbol))
                 ELSE LET data == [i \in 1..Len(hist.rows) |->
                                     [date |-> hist.rows[i].date, open |-> hist.rows[i].open,
                                      high |-> hist.rows[i].high, low |-> hist.rows[i].low,
                                      close |-> hist.rows[i].close,
                                      volume |-> hist.rows[i].volume]]
                      IN  Return([symbol |-> symbol, period |-> period,
                                  interval |-> interval, data_points |-> Len(data),
                                  data |-> data])

\* a registered callable applied to its arguments
apply_tool(func, args, hist) ==
    IF func = "get_stock_quote_tool" THEN get_stock_quote_tool(args, hist)
    ELSE get_stock_historical_data_tool(args, hist)

tool_fetches(func, args) ==
    IF func = "get_stock_quote_tool" THEN quote_fetches(args) ELSE historical_fetches(args)

\* MCPServer.register_tool: self.tools[name] = func
register_tool(tools_, name, func) ==
    [n \in DOMAIN tools_ \cup {name} |-> IF n = name THEN func ELSE tools_[n]]

\* call_tool without its try/except: the callable's exception leaves it
call_tool_unguarded(tools_, tool_name, arguments, hist) ==
    IF tool_name \notin DOMAIN tools_
    THEN Return([error |-> <<"T","o","o","l"," ","'">> \o tool_name \o <<"'"," ","n","o","t"," ","f","o","u","n","d",".">>])
    ELSE apply_tool(tools_[tool_name], arguments, hist)

\* MCPServer.call_tool
call_tool(tools_, tool_name, arguments, hist) ==
    IF tool_name \notin DOMAIN tools_
    THEN Return([error |-> <<"T","o","o","l"," ","'">> \o tool_name \o <<"'"," ","n","o","t"," ","f","o","u","n","d",".">>])
    ELSE LET out == apply_tool(tools_[tool_name], arguments, hist)
         IN  IF out.kind = "raise"
             THEN Return([error |-> <<"T","o","o","l"," ","e","x","e","c","u","t","i","o","n"," ","f","a","i","l","e","d",":"," ">> \o out.msg])
             ELSE out

\* what the callable named by tool_name did in a call_tool, if one ran
callee_outcome(tools_, tool_name, arguments, hist) ==
    IF tool_name \notin DOMAIN tools_ THEN NoOutcome
    ELSE apply_tool(tools_[tool_name], arguments, hist)

callee_fetches(tools_, tool_name, arguments) ==
    IF tool_name \notin DOMAIN tools_ THEN <<>>
    ELSE tool_fetches(tools_[tool_name], arguments)


\* ------------------------------------------------------ spoonos_stock_agent.py
\* \b at offset p of s (between s[p] and s[p+1])
WordBoundary(s, p) ==
    (p >= 1 /\ IsWord(s[p])) # (p < Len(s) /\ IsWord(s[p + 1]))

\* the pattern with {1,4} in place of {1,5}
MatchLens_max4(s, i) ==
    {k \in 1..4 : /\ i + k - 1 <= Len(s)
                  /\ \A j \in i..(i + k - 1) : IsUpperAZ(s[j])
                  /\ WordBoundary(s, i - 1)
                  /\ WordBoundary(s, i + k - 1)}

\* lengths k with which \b[A-Z]{1,5}\b matches s at position i
MatchLens(s, i) ==
    {k \in 1..5 : /\ i + k - 1 <= Len(s)
                  /\ \A j \in i..(i + k - 1) : IsUpperAZ(s[j])
                  /\ WordBoundary(s, i - 1)
                  /\ WordBoundary(s, i + k - 1)}

RECURSIVE FindAllFrom(_, _)
FindAllFrom(s, i) ==
    IF i > Len(s) THEN <<>>
    ELSE IF MatchLens(s, i) # {}
         THEN LET k == SetMax(MatchLens(s, i))
              IN  <<SubSeq(s, i, i + k - 1)>> \o FindAllFrom(s, i + k)
         ELSE FindAllFrom(s, i + 1)

\* re.findall(r'\b[A-Z]{1,5}\b', s)
re_findall_symbol(s) == FindAllFrom(s, 1)

common_symbols ==
    {<<"m","s","f","t">>, <<"a","a","p","l">>, <<"g","o","o","g","l">>, <<"g","o","o","g">>, <<"a","m","z","n">>, <<"t","s","l","a">>, <<"n","v","d","a">>, <<"m","e","t","a">>,
     <<"n","f","l","x">>, <<"a","m","d">>, <<"i","n","t","c">>, <<"c","r","m">>, <<"o","r","c","l">>, <<"a","d","b","e">>, <<"p","y","p","l">>, <<"u","b","e","r">>,
     <<"l","y","f","t">>, <<"s","n","a","p">>, <<"t","w","t","r">>, <<"p","i","n","t","e","r","e","s","t">>, <<"z","o","o","m">>, <<"s","h","o","p","i","f","y">>, <<"s","p","o","t","i","f","y">>}

\* ''.join(filter(str.isalnum, word))
clean_word(word) == SelectSeq(word, IsAlnum)

extract_symbol(user_input) ==
    LET matches == re_findall_symbol(str_upper(user_input))
        words == str_split(str_lower(user_input))
        hits == {i \in 1..Len(words) : clean_word(words[i]) \in common_symbols}
    IN  IF matches # <<>> THEN matches[1]
        ELSE IF hits # {} THEN str_upper(clean_word(words[SetMin(hits)]))
        ELSE AAPL

historical_keywords == <<<<"h","i","s","t","o","r","i","c","a","l">>, <<"h","i","s","t","o","r","y">>, <<"p","a","s","t">>, <<"d","a","t","a">>, <<"c","h","a","r","t">>>>

period_keywords ==
    << [key |-> <<"1","d">>,  keywords |-> <<<<"1","d">>, <<"1"," ","d","a","y">>, <<"d","a","i","l","y">>>>],
       [key |-> <<"5","d">>,  keywords |-> <<<<"5","d">>, <<"5"," ","d","a","y">>, <<"5"," ","d","a","y","s">>>>],
       [key |-> <<"1","m","o">>, keywords |-> <<<<"1","m","o">>, <<"1"," ","m","o","n","t","h">>, <<"m","o","n","t","h","l","y">>>>],
       [key |-> <<"3","m","o">>, keywords |-> <<<<"3","m","o">>, <<"3"," ","m","o","n","t","h">>, <<"3"," ","m","o","n","t","h","s">>, <<"q","u","a","r","t","e","r">>, <<"q","u","a","r","t","e","r","l","y">>>>],
       [key |-> <<"6","m","o">>, keywords |-> <<<<"6","m","o">>, <<"6"," ","m","o","n","t","h">>, <<"6"," ","m","o","n","t","h","s">>>>],
       [key |-> <<"1","y">>,  keywords |-> <<<<"1","y">>, <<"1"," ","y","e","a","r">>, <<"y","e","a","r","l","y">>, <<"y","e","a","r">>>>],
       [key |-> <<"2","y">>,  keywords |-> <<<<"2","y">>, <<"2"," ","y","e","a","r">>, <<"2"," ","y","e","a","r","s">>>>],
       [key |-> <<"5","y">>,  keywords |-> <<<<"5","y">>, <<"5"," ","y","e","a","r">>, <<"5"," ","y","e","a","r","s">>>>],
       [key |-> <<"m","a","x">>, keywords |-> <<<<"m","a","x">>, <<"m","a","x","i","m","u","m">>, <<"a","l","l"," ","t","i","m","e">>>>] >>

\* any(keyword in text for keyword in keywords)
AnyIn(keywords, text) == \E i \in 1..Len(keywords) : Contains(text, keywords[i])

\* the keyword "data" and "chart" are left out
is_historical_three_keywords(text) == AnyIn(SubSeq(historical_keywords, 1, 3), text)

\* text is the stripped, lowercased input
is_historical(text) == AnyIn(historical_keywords, text)

infer_period(text) ==
    LET hits == {i \in 1..Len(period_keywords) : AnyIn(period_keywords[i].keywords, text)}
    IN  IF is_historical(text) /\ hits # {} THEN period_keywords[SetMin(hits)].key
        ELSE <<"1","m","o">>

infer_interval(text) ==
    IF Contains(text, <<"1","m">>) \/ Contains(text, <<"m","i","n","u","t","e">>) THEN <<"1","m">>
    ELSE IF Contains(text, <<"5","m">>) \/ Contains(text, <<"5"," ","m","i","n","u","t","e">>) THEN <<"5","m">>
    ELSE IF Contains(text, <<"1","h">>) \/ Contains(text, <<"h","o","u","r">>) THEN <<"1","h">>
    ELSE IF Contains(text, <<"1","d">>) \/ Contains(text, <<"d","a","i","l","y">>) THEN <<"1","d">>
    ELSE IF Contains(text, <<"1","w","k">>) \/ Contains(text, <<"w","e","e","k","l","y">>) THEN <<"1","w","k">>
    ELSE <<"1","d">>

format_point(point) ==
    point.date \o <<":"," ","O","=">> \o Fmt2f(point.open) \o <<" ","H","=">> \o Fmt2f(point.high)
    \o <<" ","L","=">> \o Fmt2f(point.low) \o <<" ","C","=">> \o Fmt2f(point.close)
    \o <<" ","V","=">> \o FmtComma(point.volume) \o <<"\n">>

RECURSIVE format_points(_)
\* for point in points: output += ...
format_points(points) ==
    IF points = <<>> THEN <<>>
    ELSE format_point(Head(points)) \o format_points(Tail(points))

\* points[:5] and points[-5:]
first_five(data) == SubSeq(data, 1, IF Len(data) < 5 THEN Len(data) ELSE 5)

last_five(data) == SubSeq(data, IF Len(data) < 5 THEN 1 ELSE Len(data) - 4, Len(data))

\* the threshold test written `len(data) < 10`
format_historical_below_ten(symbol, result) ==
    LET header == <<"H","i","s","t","o","r","i","c","a","l"," ","d","a","t","a"," ","f","o","r"," ">> \o symbol \o <<" ","(">> \o PyStr(result.period)
                  \o <<","," ">> \o PyStr(result.interval) \o <<")",":","\n">>
                  \o <<"D","a","t","a"," ","p","o","i","n","t","s",":"," ">> \o IntToStr(result.data_points) \o <<"\n","\n">>
        data == result.data
    IN  IF Len(data) < 10 THEN header \o format_points(data)
        ELSE header \o format_points(first_five(data)) \o <<".",".",".","\n">>
             \o format_points(last_five(data))

format_historical(symbol, result) ==
    LET header == <<"H","i","s","t","o","r","i","c","a","l"," ","d","a","t","a"," ","f","o","r"," ">> \o symbol \o <<" ","(">> \o PyStr(result.period)
                  \o <<","," ">> \o PyStr(result.interval) \o <<")",":","\n">>
                  \o <<"D","a","t","a"," ","p","o","i","n","t","s",":"," ">> \o IntToStr(result.data_points) \o <<"\n","\n">>
        data == result.data
    IN  IF Len(data) <= 10 THEN header \o format_points(data)
        ELSE header \o format_points(first_five(data)) \o <<".",".",".","\n">>
             \o format_points(last_five(data))

format_quote(result) ==
    result.symbol \o <<" ","o","n"," ">> \o result.date \o <<":","\n">>
    \o <<" "," ","O","p","e","n",":"," "," ">> \o Fmt2f(result.open) \o <<"\n">>
    \o <<" "," ","H","i","g","h",":"," "," ">> \o Fmt2f(result.high) \o <<"\n">>
    \o <<" "," ","L","o","w",":"," "," "," ">> \o Fmt2f(result.low) \o <<"\n">>
    \o <<" "," ","C","l","o","s","e",":"," ">> \o Fmt2f(result.close) \o <<"\n">>
    \o <<" "," ","V","o","l",":"," "," "," ">> \o IntToStr(result.volume)

PromptMessage == <<"P","l","e","a","s","e"," ","p","r","o","v","i","d","e"," ","a"," ","s","t","o","c","k"," ","s","y","m","b","o","l"," ","o","r"," ","r","e","q","u","e","s","t",".">>

\* the tool invocations one handle_request makes, in order
request_invocations(raw_input) ==
    LET original_input == str_strip(raw_input)
        text == str_lower(original_input)
        symbol == extract_symbol(original_input)
    IN  IF text = <<>> THEN <<>>
        ELSE IF is_historical(text)
        THEN <<[tool_name |-> HistoricalToolName,
                arguments |-> [symbol |-> Str(symbol), period |-> Str(infer_period(text)),
                               interval |-> Str(infer_interval(text))]]>>
        ELSE <<[tool_name |-> QuoteToolName, arguments |-> [symbol |-> Str(symbol)]]>>

\* StockAgent.handle_request: returns the response text; it has no try, so
\* an exception of call_tool would leave it.  tools_ is the registry of the
\* imported server, hist the provider's answer to the fetch.
handle_request(tools_, raw_input, hist) ==
    LET original_input == str_strip(raw_input)
        symbol == extract_symbol(original_input)
        calls == request_invocations(raw_input)
    IN  IF calls = <<>> THEN Return(PromptMessage)
        ELSE LET called == call_tool(tools_, calls[1].tool_name, calls[1].arguments, hist)
                 result == called.value
             IN  IF called.kind = "raise" THEN called
                 ELSE IF calls[1].tool_name = HistoricalToolName
                 THEN IF "error" \in DOMAIN result
                      THEN Return(<<"E","r","r","o","r"," ","f","e","t","c","h","i","n","g"," ","h","i","s","t","o","r","i","c","a","l"," ","d","a","t","a"," ","f","o","r"," ">> \o symbol
                                  \o <<":"," ">> \o result.error)
                      ELSE Return(format_historical(symbol, result))
                 ELSE IF "error" \in DOMAIN result
                      THEN Return(<<"E","r","r","o","r"," ","f","e","t","c","h","i","n","g"," ","q","u","o","t","e"," ","f","o","r"," ">> \o symbol \o <<":"," ">> \o result.error)
                      ELSE Return(format_quote(result))

\* ------------------------------------------------------------------ inputs
\* the requests of examples/stock_quote_example.py,
\* examples/stock_comprehensive_test.py and
\* examples/stock_historical_example.py, in order, then further requests a
\* calling script makes
ExampleRequests ==
    <<<<"q","u","o","t","e"," ","M","S","F","T">>, <<"p","r","i","c","e"," ","o","f"," ","N","V","D","A">>,
      <<"A","A","P","L">>, <<"M","S","F","T"," ","h","i","s","t","o","r","i","c","a","l"," ","d","a","t","a"," ","1"," ","m","o","n","t","h">>, <<"N","V","D","A"," ","1"," ","y","e","a","r"," ","h","i","s","t","o","r","i","c","a","l"," ","d","a","t","a">>,
      <<"T","S","L","A"," ","p","a","s","t"," ","5"," ","d","a","y","s">>, <<"G","O","O","G","L"," ","q","u","a","r","t","e","r","l","y"," ","d","a","t","a">>,
      <<"h","i","s","t","o","r","i","c","a","l"," ","d","a","t","a"," ","f","o","r"," ","M","S","F","T"," ","f","o","r"," ","1"," ","m","o","n","t","h">>,
      <<"s","h","o","w"," ","m","e"," ","A","A","P","L"," ","h","i","s","t","o","r","i","c","a","l"," ","d","a","t","a"," ","f","o","r"," ","1"," ","y","e","a","r"," ","d","a","i","l","y">>,
      <<"N","V","D","A"," ","5"," ","y","e","a","r"," ","h","i","s","t","o","r","i","c","a","l"," ","d","a","t","a">>, <<"T","S","L","A"," ","p","a","s","t"," ","5"," ","d","a","y","s"," ","d","a","t","a">>,
      <<"G","O","O","G","L"," ","q","u","a","r","t","e","r","l","y"," ","h","i","s","t","o","r","i","c","a","l"," ","d","a","t","a">>,
      <<>>, <<" ","\t">>, <<"p","i","n","t","e","r","e","s","t"," ","h","i","s","t","o","r","y">>, <<"1","2","3","4","5">>, <<" "," ","t","s","l","a"," ","h","o","u","r","l","y"," ","c","h","a","r","t"," ","\n">>,
      <<"_","m","s","f","t">>, <<"a","m","z","n"," ","1","m","o"," ","d","a","t","a">>>>

\* what a user types at the prompt of main
RequestTexts ==
    {<<"q","u","o","t","e"," ","M","S","F","T">>, <<"A","A","P","L">>, <<"M","S","F","T"," ","h","i","s","t","o","r","i","c","a","l"," ","d","a","t","a"," ","1"," ","m","o","n","t","h">>,
     <<"N","V","D","A"," ","5"," ","y","e","a","r"," ","h","i","s","t","o","r","i","c","a","l"," ","d","a","t","a">>, <<"G","O","O","G","L"," ","q","u","a","r","t","e","r","l","y"," ","d","a","t","a">>, <<"1","2","3","4","5">>,
     <<" ","e","x","i","t">>, <<"q","u","i","t"," ","n","o","w">>}

ExitTexts == {<<"e","x","i","t">>, <<"Q","U","I","T">>, <<"E","x","i","t">>, <<"q","u","i","t">>}

BlankTexts == {<<>>, <<" "," ">>, <<" ","\t">>}

UserInputs == RequestTexts \cup ExitTexts \cup BlankTexts

\* the calls a caller of the server makes, in order: every tool name below
\* with every arguments mapping below
CallNames == <<QuoteToolName, HistoricalToolName, <<"g","e","t","_","n","e","w","s">>>>

CallArguments ==
    << <<>>,
       [symbol |-> Str(<<"m","s","f","t">>)],
       [symbol |-> NotStr(<<"7">>)],
       [symbol |-> Str(<<"N","V","D","A">>), period |-> Str(<<"5","d">>), interval |-> Str(<<"1","h">>)],
       [symbol |-> NotStr(<<"7">>), period |-> Str(<<"1","y">>)],
       [period |-> NotStr(<<"7">>)] >>

ServerCalls ==
    [k \in 1..(Len(CallNames) * Len(CallArguments)) |->
        [tool_name |-> CallNames[((k - 1) \div Len(CallArguments)) + 1],
         arguments |-> CallArguments[((k - 1) % Len(CallArguments)) + 1]]]

\* ------------------------------------------------------------------- state
VARIABLES
    entry,         \* which program runs: "agent" (spoonos_stock_agent.py main),
                   \* "server" (stock_mcp_server.py) or "example" (examples/*.py)
    pc,            \* "register_quote", "register_historical", "ready" (the
                   \* registry is set up; main is at input()), "handling" (main
                   \* awaits handle_request), "done"
    pos,           \* how many of ExampleRequests (of ServerCalls) the example
                   \* script (the caller of the server) has made
    tools,         \* MCPServer.tools: name -> callable
    event,         \* how the last step of the program ended
    user_input,    \* the text read by input() or passed to handle_request
    response,      \* how the handle_request of the last step ended
    printed,       \* what main printed in the last step
    invoked,       \* the call_tool invocations of the last step, in order
    fetched,       \* the provider fetches of the last step, in order
    provider,      \* what the provider answered (or would have) in the last step
    tool_outcome,  \* how the registered callable run in the last step ended
    call_outcome   \* how the call_tool of the last step ended

vars == <<entry, pc, pos, tools, event, user_input, response, printed, invoked, fetched,
          provider, tool_outcome, call_outcome>>

NoProvider == [kind |-> "none"]

Init ==
    /\ entry \in {"agent", "server", "example"}
    /\ pc = "register_quote"
    /\ pos = 0
    /\ tools = <<>>
    /\ event = "start"
    /\ user_input = <<>>
    /\ response = NoOutcome
    /\ printed = <<>>
    /\ invoked = <<>>
    /\ fetched = <<>>
    /\ provider = NoProvider
    /\ tool_outcome = NoOutcome
    /\ call_outcome = NoOutcome

\* the names and callables the module registers on import
RegisteredTools ==
    register_tool(register_tool(<<>>, QuoteToolName, "get_stock_quote_tool"),
                  HistoricalToolName, "get_stock_historical_data_tool")

\* a step that runs no handle_request and no call_tool
NothingCalled ==
    /\ response' = NoOutcome
    /\ invoked' = <<>>
    /\ fetched' = <<>>
    /\ provider' = NoProvider
    /\ tool_outcome' = NoOutcome
    /\ call_outcome' = NoOutcome

\* server.register_tool("get_stock_quote", get_stock_quote_tool)
RegisterQuote ==
    /\ pc = "register_quote"
    /\ tools' = register_tool(tools, QuoteToolName, "get_stock_quote_tool")
    /\ pc' = "register_historical"
    /\ event' = "registered"
    /\ NothingCalled
    /\ UNCHANGED <<entry, pos, user_input, printed>>

\* server.register_tool("get_stock_historical_data", get_stock_historical_data_tool)
RegisterHistorical ==
    /\ pc = "register_historical"
    /\ tools' = register_tool(tools, HistoricalToolName, "get_stock_historical_data_tool")
    /\ pc' = "ready"
    /\ event' = "registered"
    /\ NothingCalled
    /\ UNCHANGED <<entry, pos, user_input, printed>>

\* a call_tool that unregisters a tool whose callable raised
CallTool_unregistering ==
    /\ entry = "server"
    /\ pc = "ready"
    /\ pos < Len(ServerCalls)
    /\ pos' = pos + 1
    /\ LET tool_name == ServerCalls[pos + 1].tool_name
           arguments == ServerCalls[pos + 1].arguments
       IN  \E hist \in ProviderOutcomes :
              /\ invoked' = <<[tool_name |-> tool_name, arguments |-> arguments]>>
              /\ fetched' = callee_fetches(tools, tool_name, arguments)
              /\ provider' = hist
              /\ tool_outcome' = callee_outcome(tools, tool_name, arguments, hist)
              /\ call_outcome' = call_tool(tools, tool_name, arguments, hist)
              /\ tools' = IF callee_outcome(tools, tool_name, arguments, hist).kind = "raise"
                          THEN [n \in DOMAIN tools \ {tool_name} |-> tools[n]]
                          ELSE tools
    /\ event' = "called"
    /\ response' = NoOutcome
    /\ UNCHANGED <<entry, pc, user_input, printed>>

\* server.call_tool(tool_name, arguments), the next call of the caller
CallTool ==
    /\ entry = "server"
    /\ pc = "ready"
    /\ pos < Len(ServerCalls)
    /\ pos' = pos + 1
    /\ LET tool_name == ServerCalls[pos + 1].tool_name
           arguments == ServerCalls[pos + 1].arguments
       IN  \E hist \in ProviderOutcomes :
              /\ invoked' = <<[tool_name |-> tool_name, arguments |-> arguments]>>
              /\ fetched' = callee_fetches(tools, tool_name, arguments)
              /\ provider' = hist
              /\ tool_outcome' = callee_outcome(tools, tool_name, arguments, hist)
              /\ call_outcome' = call_tool(tools, tool_name, arguments, hist)
    /\ event' = "called"
    /\ response' = NoOutcome
    /\ UNCHANGED <<entry, pc, tools, user_input, printed>>

\* the record of one handle_request(text)
Handle(text, hist) ==
    LET calls == request_invocations(text)
    IN  /\ provider' = hist
        /\ invoked' = calls
        /\ response' = handle_request(tools, text, hist)
        /\ IF calls = <<>>
           THEN /\ fetched' = <<>>
                /\ tool_outcome' = NoOutcome
                /\ call_outcome' = NoOutcome
           ELSE /\ fetched' = callee_fetches(tools, calls[1].tool_name, calls[1].arguments)
                /\ tool_outcome' = callee_outcome(tools, calls[1].tool_name,
                                                  calls[1].arguments, hist)
                /\ call_outcome' = call_tool(tools, calls[1].tool_name,
                                             calls[1].arguments, hist)

\* examples/*.py: the script announces its next request,
\* print(f"\nQuerying: '...'")
ExampleNext ==
    /\ entry = "example"
    /\ pc = "ready"
    /\ pos < Len(ExampleRequests)
    /\ pos' = pos + 1
    /\ user_input' = ExampleRequests[pos + 1]
    /\ pc' = "handling"
    /\ event' = "querying"
    /\ NothingCalled
    /\ UNCHANGED <<entry, tools, printed>>

\* examples/*.py: response = await agent.handle_request(text)
ExampleRequest ==
    /\ entry = "example"
    /\ pc = "handling"
    /\ \E hist \in ProviderOutcomes : Handle(user_input, hist)
    /\ pc' = "ready"
    /\ event' = "handled"
    /\ UNCHANGED <<entry, pos, tools, user_input, printed>>

\* main: the input is the exit keyword, `break`
MainExit ==
    /\ entry = "agent"
    /\ pc = "ready"
    /\ \E text \in UserInputs :
          /\ str_lower(text) \in {<<"e","x","i","t">>, <<"q","u","i","t">>}
          /\ user_input' = text
    /\ pc' = "done"
    /\ event' = "exit"
    /\ printed' = <<>>
    /\ NothingCalled
    /\ UNCHANGED <<entry, pos, tools>>

\* main: blank input, `continue`
MainBlank ==
    /\ entry = "agent"
    /\ pc = "ready"
    /\ \E text \in UserInputs :
          /\ str_lower(text) \notin {<<"e","x","i","t">>, <<"q","u","i","t">>}
          /\ str_strip(text) = <<>>
          /\ user_input' = text
    /\ pc' = "ready"
    /\ event' = "blank"
    /\ printed' = <<>>
    /\ NothingCalled
    /\ UNCHANGED <<entry, pos, tools>>

\* main: any other input goes to handle_request
MainRead ==
    /\ entry = "agent"
    /\ pc = "ready"
    /\ \E text \in UserInputs :
          /\ str_lower(text) \notin {<<"e","x","i","t">>, <<"q","u","i","t">>}
          /\ str_strip(text) # <<>>
          /\ user_input' = text
    /\ pc' = "handling"
    /\ event' = "read"
    /\ printed' = <<>>
    /\ NothingCalled
    /\ UNCHANGED <<entry, pos, tools>>

\* main: handle_request returns and the response is printed; an Exception
\* of handle_request or of print(f"Agent:\n{response}") (a write to stdout
\* that could not complete) is caught by `except Exception` and printed
MainRequest ==
    /\ entry = "agent"
    /\ pc = "handling"
    /\ \E hist \in ProviderOutcomes, stdout_ok \in BOOLEAN :
          /\ Handle(user_input, hist)
          /\ IF response'.kind = "raise"
             THEN /\ event' = "error"
                  /\ printed' = <<"A","n"," ","e","r","r","o","r"," ","o","c","c","u","r","r","e","d",":"," ">> \o response'.msg
             ELSE IF stdout_ok
             THEN /\ event' = "handled"
                  /\ printed' = <<"A","g","e","n","t",":","\n">> \o response'.value
             ELSE /\ event' = "error"
                  /\ printed' = <<"A","n"," ","e","r","r","o","r"," ","o","c","c","u","r","r","e","d",":"," ">> \o <<"[","E","r","r","n","o"," ","1","1","]"," ","w","r","i","t","e"," ","c","o","u","l","d"," ","n","o","t"," ","c","o","m","p","l","e","t","e"," ","w","i","t","h","o","u","t"," ","b","l","o","c","k","i","n","g">>
    /\ pc' = "ready"
    /\ UNCHANGED <<entry, pos, tools, user_input>>

\* an `except Exception` branch that ends the loop
MainReadError_break ==
    /\ entry = "agent"
    /\ pc = "ready"
    /\ pc' = "done"
    /\ event' = "error"
    /\ printed' = <<"A","n"," ","e","r","r","o","r"," ","o","c","c","u","r","r","e","d",":"," ">> \o <<"E","O","F"," ","w","h","e","n"," ","r","e","a","d","i","n","g"," ","a"," ","l","i","n","e">>
    /\ NothingCalled
    /\ UNCHANGED <<entry, pos, tools, user_input>>

\* main: input() raises an Exception (EOFError), caught and printed
MainReadError ==
    /\ entry = "agent"
    /\ pc = "ready"
    /\ pc' = "ready"
    /\ event' = "error"
    /\ printed' = <<"A","n"," ","e","r","r","o","r"," ","o","c","c","u","r","r","e","d",":"," ">> \o <<"E","O","F"," ","w","h","e","n"," ","r","e","a","d","i","n","g"," ","a"," ","l","i","n","e">>
    /\ NothingCalled
    /\ UNCHANGED <<entry, pos, tools, user_input>>

\* main: KeyboardInterrupt at the prompt or while the request is awaited,
\* `break`
MainInterrupt ==
    /\ entry = "agent"
    /\ pc \in {"ready", "handling"}
    /\ pc' = "done"
    /\ event' = "interrupt"
    /\ printed' = <<>>
    /\ NothingCalled
    /\ UNCHANGED <<entry, pos, tools, user_input>>

Next ==
    \/ RegisterQuote
    \/ RegisterHistorical
    \/ CallTool
    \/ ExampleNext
    \/ ExampleRequest
    \/ MainExit
    \/ MainBlank
    \/ MainRead
    \/ MainRequest
    \/ MainReadError
    \/ MainInterrupt

Spec == Init /\ [][Next]_vars

\* ------------------------------------------------------------ properties
\* a handle_request ran to its end in the last step
Requested == response # NoOutcome

\* a call_tool ran in the last step
Called == call_outcome # NoOutcome

\* a registered callable ran in the last step
ToolRan == tool_outcome # NoOutcome

\* C1: for the input "quote MSFT", handle_request makes one invocation, of
\* the quote tool with symbol "MSFT".
C1_QuoteMSFT ==
    (Requested /\ user_input = <<"q","u","o","t","e"," ","M","S","F","T">>)
    => invoked = <<[tool_name |-> QuoteToolName, arguments |-> [symbol |-> Str(<<"M","S","F","T">>)]]>>

HistoricalInvocation(symbol, period, interval) ==
    <<[tool_name |-> HistoricalToolName,
       arguments |-> [symbol |-> Str(symbol), period |-> Str(period),
                      interval |-> Str(interval)]]>>

\* C2: each of the four historical test inputs invokes the historical tool
\* with the stated symbol and period and the default interval "1d".
C2_HistoricalTestInputs ==
    Requested =>
        /\ user_input = <<"M","S","F","T"," ","h","i","s","t","o","r","i","c","a","l"," ","d","a","t","a"," ","1"," ","m","o","n","t","h">>
              => invoked = HistoricalInvocation(<<"M","S","F","T">>, <<"1","m","o">>, <<"1","d">>)
        /\ user_input = <<"N","V","D","A"," ","1"," ","y","e","a","r"," ","h","i","s","t","o","r","i","c","a","l"," ","d","a","t","a">>
              => invoked = HistoricalInvocation(<<"N","V","D","A">>, <<"1","y">>, <<"1","d">>)
        /\ user_input = <<"T","S","L","A"," ","p","a","s","t"," ","5"," ","d","a","y","s">>
              => invoked = HistoricalInvocation(<<"T","S","L","A">>, <<"5","d">>, <<"1","d">>)
        /\ user_input = <<"G","O","O","G","L"," ","q","u","a","r","t","e","r","l","y"," ","d","a","t","a">>
              => invoked = HistoricalInvocation(<<"G","O","O","G","L">>, <<"3","m","o">>, <<"1","d">>)

C2_Witness ==
    /\ Requested
    /\ user_input = <<"T","S","L","A"," ","p","a","s","t"," ","5"," ","d","a","y","s">>
    /\ fetched # <<>>
    /\ fetched[1].period = Str(<<"5","d">>)

\* C3: call_tool never raises; an unknown name gives an error payload naming
\* the tool, a raising callable an error payload carrying the exception's
\* message, and otherwise the callable's result is returned unchanged.
C3_CallToolNeverRaises ==
    Called =>
        /\ call_outcome.kind = "return"
        /\ invoked[1].tool_name \notin DOMAIN tools
              => /\ "error" \in DOMAIN call_outcome.value
                 /\ Contains(call_outcome.value.error, invoked[1].tool_name)
        /\ tool_outcome.kind = "raise"
              => /\ "error" \in DOMAIN call_outcome.value
                 /\ Contains(call_outcome.value.error, tool_outcome.msg)
        /\ tool_outcome.kind = "return" => call_outcome.value = tool_outcome.value

C3_Witness ==
    /\ Called
    /\ tool_outcome.kind = "raise"
    /\ call_outcome.kind = "return"
    /\ "error" \in DOMAIN call_outcome.value

\* C4: when the provider call raises, the tool returns an error payload (an
\* error string, no data fields) whose string contains the provider's
\* message; an empty provider result gives a "no data for symbol" payload.
C4_ProviderFailureIsErrorPayload ==
    (ToolRan /\ fetched # <<>>) =>
        /\ provider.kind = "raise"
              => /\ tool_outcome.kind = "return"
                 /\ "error" \in DOMAIN tool_outcome.value
                 /\ DOMAIN tool_outcome.value \subseteq {"symbol", "error"}
                 /\ Contains(tool_outcome.value.error, provider.msg)
        /\ (provider.kind = "rows" /\ provider.rows = <<>>)
              => /\ tool_outcome.kind = "return"
                 /\ "error" \in DOMAIN tool_outcome.value
                 /\ DOMAIN tool_outcome.value \subseteq {"symbol", "error"}
                 /\ Contains(tool_outcome.value.error, <<"N","o"," ","d","a","t","a"," ","f","o","u","n","d"," ","f","o","r"," ","s","y","m","b","o","l">>)
                 /\ Contains(tool_outcome.value.error, fetched[1].symbol)

C4_Witness ==
    /\ ToolRan
    /\ fetched # <<>>
    /\ provider.kind = "raise"
    /\ invoked[1].tool_name = HistoricalToolName
    /\ "error" \in DOMAIN tool_outcome.value

\* C5: the quote tool and the historical tool raise nothing, whatever the
\* arguments mapping and the provider outcome.
C5_ToolsNeverThrow == ToolRan => tool_outcome.kind = "return"

\* the lines of a text: the pieces ended by "\n", and what follows the last
\* "\n" when that is not empty
Lines(s) ==
    LET nl == {i \in 1..Len(s) : s[i] = "\n"}
        m == Cardinality(nl)
        at(k) == CHOOSE i \in nl : Cardinality({j \in nl : j <= i}) = k
        start(k) == IF k = 1 THEN 1 ELSE at(k - 1) + 1
        ended == [k \in 1..m |-> SubSeq(s, start(k), at(k) - 1)]
        rest == IF m = 0 THEN 1 ELSE at(m) + 1
    IN  IF rest <= Len(s) THEN Append(ended, SubSeq(s, rest, Len(s))) ELSE ended

\* the row lines the formatter writes for the points of data
RowLines(data) == [i \in 1..Len(data) |-> Lines(format_point(data[i]))[1]]

\* the response below its three header lines
BodyLines(text) == SubSeq(Lines(text), 4, Len(Lines(text)))

HistoricalFormatted ==
    /\ Requested
    /\ response.kind = "return"
    /\ Called
    /\ invoked[1].tool_name = HistoricalToolName
    /\ "data" \in DOMAIN call_outcome.value

\* C6: a historical record of n rows is listed whole and without a "..."
\* line when n <= 10, and as its first 5 rows, one "..." line and its last 5
\* rows when n > 10.
C6_HeadTailTruncation ==
    HistoricalFormatted =>
        LET data == call_outcome.value.data
            n == Len(data)
            body == BodyLines(response.value)
        IN  IF n <= 10
            THEN /\ body = RowLines(data)
                 /\ \A i \in 1..Len(Lines(response.value)) : Lines(response.value)[i] # <<".",".",".">>
            ELSE body = SubSeq(RowLines(data), 1, 5) \o <<<<".",".",".">>>>
                        \o SubSeq(RowLines(data), n - 4, n)

C6_Witness ==
    /\ HistoricalFormatted
    /\ Len(call_outcome.value.data) = 12
    /\ Len(BodyLines(response.value)) = 11

\* C7: the example query "NVDA 5 year historical data" invokes the
\* historical tool with symbol "NVDA" and period "5y".
C7_FiveYearExample ==
    (Requested /\ user_input = <<"N","V","D","A"," ","5"," ","y","e","a","r"," ","h","i","s","t","o","r","i","c","a","l"," ","d","a","t","a">>)
    => /\ Len(invoked) = 1
       /\ invoked[1].tool_name = HistoricalToolName
       /\ invoked[1].arguments.symbol = Str(<<"N","V","D","A">>)
       /\ invoked[1].arguments.period = Str(<<"5","y">>)

\* C8: in main an exception of the read or of the handling is printed and
\* the loop goes on; the loop ends only on the input "exit" or "quit" (any
\* letter case) or on a keyboard interrupt; blank input makes no tool call.
C8_SessionSurvivesErrors ==
    entry = "agent" =>
        /\ event = "error"
              => /\ pc = "ready"
                 /\ SubSeq(printed, 1, 19) = <<"A","n"," ","e","r","r","o","r"," ","o","c","c","u","r","r","e","d",":"," ">>
        /\ pc = "done" => event \in {"exit", "interrupt"}
        /\ event = "exit" => str_lower(user_input) \in {<<"e","x","i","t">>, <<"q","u","i","t">>}
        /\ event = "blank" => (pc = "ready" /\ invoked = <<>> /\ fetched = <<>>)

C8_Witness ==
    /\ entry = "agent"
    /\ event = "error"
    /\ pc = "ready"
    /\ invoked # <<>>

\* C9: once the two tools are registered, the registry holds exactly those
\* two names bound to the same callables, whatever was called since.
C9_RegistryOnlyRead ==
    pc \in {"ready", "handling", "done"} =>
        /\ DOMAIN tools = {QuoteToolName, HistoricalToolName}
        /\ tools[QuoteToolName] = "get_stock_quote_tool"
        /\ tools[HistoricalToolName] = "get_stock_historical_data_tool"

C9_Witness ==
    /\ Called
    /\ tool_outcome.kind = "raise"
    /\ pos > 1
    /\ DOMAIN tools = {QuoteToolName, HistoricalToolName}

HistoricalWords == {<<"h","i","s","t","o","r","i","c","a","l">>, <<"h","i","s","t","o","r","y">>, <<"p","a","s","t">>, <<"d","a","t","a">>, <<"c","h","a","r","t">>}

\* C10: handle_request makes no invocation and returns the prompt message
\* when the trimmed input is empty, and otherwise exactly one: of the
\* historical tool with {symbol, period, interval} iff the lowercased input
\* contains "historical", "history", "past", "data" or "chart", else of the
\* quote tool with {symbol}; nothing is retried after an error result.
C10_OneInvocationByIntent ==
    Requested =>
        IF str_strip(user_input) = <<>>
        THEN invoked = <<>> /\ fetched = <<>> /\ response = Return(PromptMessage)
        ELSE /\ Len(invoked) = 1
             /\ Len(fetched) <= 1
             /\ IF \E w \in HistoricalWords : Contains(str_lower(user_input), w)
                THEN /\ invoked[1].tool_name = HistoricalToolName
                     /\ DOMAIN invoked[1].arguments = {"symbol", "period", "interval"}
                ELSE /\ invoked[1].tool_name = QuoteToolName
                     /\ DOMAIN invoked[1].arguments = {"symbol"}

C10_Witness ==
    /\ Requested
    /\ Len(invoked) = 1
    /\ invoked[1].tool_name = HistoricalToolName
    /\ Called
    /\ "error" \in DOMAIN call_outcome.value
    /\ Len(fetched) = 1

=============================================================================
